---- MODULE Spec2Model ----
(***************************************************************************)
(* Model of src/src/dotenv-azure.ts: class DotenvAzure.                    *)
(*                                                                         *)
(* One DotenvAzure instance serves calls of config(), parse() and          *)
(* loadFromAzure().  Every `await` of the source is a point where another  *)
(* call's step may run.  A call's state is the record calls[c]; the        *)
(* instance's state is the constructor's fields and the keyVaultClients    *)
(* registry; process.env is `env`.                                         *)
(*                                                                         *)
(* Spec      one call on a fresh instance, over the full input alphabet.   *)
(* SpecCalls any number of calls on one instance, at most two of them at   *)
(*           a time, over an alphabet of well-formed references.           *)
(***************************************************************************)
EXTENDS Integers, Sequences, FiniteSets, TLC

\* ------------------------------------------------------------------ bounds
MaxEntries == 2    \* entries one enumeration of the store yields

\* a call occupies one of two slots until it is over
CallIds == {1, 2}

\* ------------------------------------------------------- values and objects
Undefined == "<undefined>"
EmptyObj == [k \in {} |-> ""]

CS == "AZURE_APP_CONFIG_CONNECTION_STRING"
Keys == {"A", "B"}

\* JavaScript truthiness of a string-or-undefined value
Falsy(v) == v = Undefined \/ v = ""

\* obj[k], undefined when the key is absent
Get(obj, k) == IF k \in DOMAIN obj THEN obj[k] ELSE Undefined

\* { ...a, ...b }
Spread(a, b) ==
  [k \in DOMAIN a \cup DOMAIN b |-> IF k \in DOMAIN b THEN b[k] ELSE a[k]]

\* obj[k] = v
Put(obj, k, v) == [x \in DOMAIN obj \cup {k} |-> IF x = k THEN v ELSE obj[x]]

\* ------------------------------------------------ entries the store yields
Sentinel == "application/vnd.microsoft.appconfig.keyvaultref+json;charset=utf-8"
ContentTypes ==
  { Sentinel,
    "application/vnd.microsoft.appconfig.keyvaultref+json",
    Undefined }

RefV1 == "{\"uri\":\"https://v1.vault/secrets/s\"}"
RefV1b == "{\"uri\":\"https://v1.vault/secrets/t/7\"}"
RefV2 == "{\"uri\":\"https://v2.vault/secrets/s\"}"
BadValues ==
  { Undefined, "", "not json", "null", "{}",
    "{\"uri\":\"not a url\"}",
    "{\"uri\":\"https://v1.vault/secrets\"}",
    "{\"uri\":\"https://v1.vault/secrets/\"}" }
PlainValues == {"p1", "p2"}
Values == PlainValues \cup {RefV1, RefV1b, RefV2} \cup BadValues

\* what the store may yield: any reference-tagged entry, and plain entries
\* whose value is text or happens to look like a reference
Entries ==
  { e \in [key : Keys, value : Values, contentType : ContentTypes] :
      e.contentType = Sentinel \/ e.value \in PlainValues \cup {RefV1} }

\* JSON.parse(text): [ok |-> FALSE] when it throws
JSONparse(text) ==
  CASE text = "null" -> [ok |-> TRUE, isObject |-> FALSE, uri |-> Undefined]
    [] text = "{}" -> [ok |-> TRUE, isObject |-> TRUE, uri |-> Undefined]
    [] text = "{\"uri\":\"not a url\"}" ->
         [ok |-> TRUE, isObject |-> TRUE, uri |-> "not a url"]
    [] text = "{\"uri\":\"https://v1.vault/secrets\"}" ->
         [ok |-> TRUE, isObject |-> TRUE, uri |-> "https://v1.vault/secrets"]
    [] text = "{\"uri\":\"https://v1.vault/secrets/\"}" ->
         [ok |-> TRUE, isObject |-> TRUE, uri |-> "https://v1.vault/secrets/"]
    [] text = RefV1 ->
         [ok |-> TRUE, isObject |-> TRUE, uri |-> "https://v1.vault/secrets/s"]
    [] text = RefV1b ->
         [ok |-> TRUE, isObject |-> TRUE, uri |-> "https://v1.vault/secrets/t/7"]
    [] text = RefV2 ->
         [ok |-> TRUE, isObject |-> TRUE, uri |-> "https://v2.vault/secrets/s"]
    [] OTHER -> [ok |-> FALSE, isObject |-> FALSE, uri |-> Undefined]

\* new URL(uri): origin and pathname (as its characters, names being single
\* tokens); [ok |-> FALSE] when it throws
NewURL(uri) ==
  CASE uri = "https://v1.vault/secrets" ->
         [ok |-> TRUE, origin |-> "https://v1.vault",
          pathname |-> <<"/", "secrets">>]
    [] uri = "https://v1.vault/secrets/" ->
         [ok |-> TRUE, origin |-> "https://v1.vault",
          pathname |-> <<"/", "secrets", "/">>]
    [] uri = "https://v1.vault/secrets/s" ->
         [ok |-> TRUE, origin |-> "https://v1.vault",
          pathname |-> <<"/", "secrets", "/", "s">>]
    [] uri = "https://v1.vault/secrets/t/7" ->
         [ok |-> TRUE, origin |-> "https://v1.vault",
          pathname |-> <<"/", "secrets", "/", "t", "/", "7">>]
    [] uri = "https://v2.vault/secrets/s" ->
         [ok |-> TRUE, origin |-> "https://v2.vault",
          pathname |-> <<"/", "secrets", "/", "s">>]
    [] OTHER -> [ok |-> FALSE, origin |-> Undefined, pathname |-> <<>>]

\* pathname.split('/'): the segments between the separators
RECURSIVE SplitFrom(_, _, _)
SplitFrom(path, i, cur) ==
  IF i > Len(path) THEN <<cur>>
  ELSE IF path[i] = "/" THEN <<cur>> \o SplitFrom(path, i + 1, "")
  ELSE SplitFrom(path, i + 1, path[i])
Split(path) == SplitFrom(path, 1, "")

\* array[i] with JavaScript's 0-based index, undefined past the end
At(arr, i) == IF i + 1 <= Len(arr) THEN arr[i + 1] ELSE Undefined

\* --------------------------------------------------- Secret reference detector
\* mutant: any content type that begins like the sentinel
isKeyVaultReferencePrefix(config) ==
  config.contentType \in
    {Sentinel, "application/vnd.microsoft.appconfig.keyvaultref+json"}

\* isKeyVaultReference(config)
isKeyVaultReference(config) == config.contentType = Sentinel

\* new InvalidKeyVaultUrlError(key)
InvalidKeyVaultUrlError(key) == [ok |-> FALSE, error |-> "InvalidKeyVaultUrl", key |-> key]

\* mutant: no test of the secret name
getKeyVaultReferenceInfoAnyName(key, value) ==
  IF Falsy(value)
  THEN InvalidKeyVaultUrlError(key)
  ELSE
    LET obj == JSONparse(value) IN
    IF ~obj.ok \/ ~obj.isObject
    THEN InvalidKeyVaultUrlError(key)
    ELSE
      LET keyVaultUrl == NewURL(obj.uri) IN
      IF ~keyVaultUrl.ok
      THEN InvalidKeyVaultUrlError(key)
      ELSE
        LET parts == Split(keyVaultUrl.pathname)
        IN [ok |-> TRUE,
            vaultUrl |-> keyVaultUrl.origin,
            secretUrl |-> obj.uri,
            secretName |-> At(parts, 2),
            secretVersion |-> At(parts, 3)]

\* getKeyVaultReferenceInfo({ key, value }): the decoded reference, or the
\* InvalidKeyVaultUrlError every failure inside the try block is turned into
getKeyVaultReferenceInfo(key, value) ==
  IF Falsy(value)
  THEN InvalidKeyVaultUrlError(key)          \* undefined.uri, new URL(("").uri)
  ELSE
    LET obj == JSONparse(value) IN
    IF ~obj.ok \/ ~obj.isObject
    THEN InvalidKeyVaultUrlError(key)        \* SyntaxError, null.uri
    ELSE
      LET keyVaultUrl == NewURL(obj.uri) IN
      IF ~keyVaultUrl.ok
      THEN InvalidKeyVaultUrlError(key)      \* new URL throws
      ELSE
        LET parts == Split(keyVaultUrl.pathname)
            secretName == At(parts, 2)
            secretVersion == At(parts, 3)
        IN IF Falsy(secretName)
           THEN InvalidKeyVaultUrlError(key)
           ELSE [ok |-> TRUE,
                 vaultUrl |-> keyVaultUrl.origin,
                 secretUrl |-> obj.uri,
                 secretName |-> secretName,
                 secretVersion |-> secretVersion]

\* ------------------------------------------------------------ the vault
\* what keyVaultClient.getSecret(name, { version }) answers when it succeeds
VaultSecret(vaultUrl, secretName, secretVersion) ==
  CASE vaultUrl = "https://v1.vault" /\ secretName = "s" -> "secret-v1-s"
    [] vaultUrl = "https://v1.vault" /\ secretName = "t" -> "secret-v1-t"
    [] vaultUrl = "https://v2.vault" /\ secretName = "s" -> "secret-v2-s"
    [] OTHER -> Undefined

\* ------------------------------------------------------ credential resolver
\* mutant: no test of the connection string found
getAzureCredentialsUnchecked(ctorConnectionString, dotenvVars, processEnv) ==
  LET vars == Spread(dotenvVars, processEnv)
      connectionString ==
        IF ~Falsy(ctorConnectionString) THEN ctorConnectionString ELSE Get(vars, CS)
  IN [ok |-> TRUE, connectionString |-> connectionString]

\* mutant: the ambient environment under the local values, { ...process.env, ...dotenvVars }
getAzureCredentialsLocalFirst(ctorConnectionString, dotenvVars, processEnv) ==
  LET vars == Spread(processEnv, dotenvVars)
      connectionString ==
        IF ~Falsy(ctorConnectionString) THEN ctorConnectionString ELSE Get(vars, CS)
  IN [ok |-> ~Falsy(connectionString), connectionString |-> connectionString]

\* getAzureCredentials(dotenvVars): [ok |-> FALSE] is MissingAppConfigCredentialsError
getAzureCredentials(ctorConnectionString, dotenvVars, processEnv) ==
  LET vars == Spread(dotenvVars, processEnv)
      connectionString ==
        IF ~Falsy(ctorConnectionString) THEN ctorConnectionString ELSE Get(vars, CS)
  IN [ok |-> ~Falsy(connectionString), connectionString |-> connectionString]

\* ------------------------------------------------------------ merge assembler
\* mutant: the spread the other way round, { ...keyVaultSecrets, ...appConfigVars }
AzureVarsPlainLast(appConfigVars, keyVaultSecrets) ==
  Spread(keyVaultSecrets, appConfigVars)

\* loadFromAzure's return value: { ...appConfigVars, ...keyVaultSecrets }
AzureVars(appConfigVars, keyVaultSecrets) == Spread(appConfigVars, keyVaultSecrets)

\* mutant: { ...dotenvVars, ...azureVars }
JoinedVarsAzureLast(azureVars, dotenvVars) == Spread(dotenvVars, azureVars)

\* { ...azureVars, ...dotenvVars } of parse and config
JoinedVars(azureVars, dotenvVars) == Spread(azureVars, dotenvVars)

\* dotenv.config(options): the file's values go to process.env where it has
\* no value yet
dotenvConfig(processEnv, parsed) == Spread(parsed, processEnv)

\* populateProcessEnv(variables): each variable is written to the sink
populateProcessEnv(processEnv, variables) == Spread(processEnv, variables)

\* Math.ceil(a / b)
CeilDiv(a, b) == (a + b - 1) \div b

\* mutant: Math.floor(1000 / rateLimit)
MinTimeFloor(rate) == 1000 \div rate

\* the constructor's Math.ceil(1000 / rateLimit)
MinTime(rate) == CeilDiv(1000, rate)

Min(a, b) == IF a < b THEN a ELSE b
Max(a, b) == IF a > b THEN a ELSE b

\* ------------------------------------------------------------------ inputs
Kinds == {"config", "parse", "loadFromAzure"}
RateLimits == {600, 1000}
ConnectionStrings == {Undefined, "cs-ctor"}
LocalVars ==
  { EmptyObj,
    "A" :> "l1",
    ("A" :> "l1") @@ (CS :> "cs-local") }
AmbientEnvs == { EmptyObj, ("A" :> "e1") @@ (CS :> "cs-env"), CS :> "" }

\* the inputs of SpecCalls
ReferenceEntries ==
  { e \in Entries : /\ e.contentType = Sentinel
                    /\ e.value \in {RefV1, RefV2}
                    /\ e.key = "A" => e.value = RefV1 }

\* the inputs of SpecLive: references, a reference that cannot be decoded
\* and a plain entry
LiveEntries ==
  ReferenceEntries \cup
  { e \in Entries : \/ e.contentType = Sentinel /\ e.key = "B" /\ e.value = "{}"
                    \/ e.contentType = Undefined /\ e.key = "A" /\ e.value = "p1" }

\* config's options: safe with allowEmptyValues; example and path are fixed
NoSafe == [safe |-> FALSE, allowEmptyValues |-> FALSE]

SafeOptions == {[safe |-> TRUE, allowEmptyValues |-> a] : a \in BOOLEAN}

\* the keys of the example file, dotenv.parse(fs.readFileSync(example))
ExampleKeys == {"A", "B", CS}

CredentialVars == { CS :> "cs-local" }

\* -------------------------------------------------------------------- state
VARIABLES
  rateLimit,                  \* the constructor's rateLimit option
  keyVaultRateLimitMinTime,   \* this.keyVaultRateLimitMinTime
  connectionString,           \* this.connectionString
  keyVaultClients,            \* this.keyVaultClients: vault URL -> client
  env,                        \* process.env
  calls,                      \* the calls in progress on the instance
  clients,                    \* history: every SecretClient constructed
  uses,                       \* history: the client of every fetch initiated
  sinceAny,                   \* history: time since the last fetch initiation
  minGapAny                   \* history: least time between two initiations

vars ==
  << rateLimit, keyVaultRateLimitMinTime, connectionString, keyVaultClients,
     env, calls, clients, uses, sinceAny, minGapAny >>

\* the interval the limiter is configured for; the history clocks stop there
Interval == CeilDiv(1000, rateLimit)

IdleCall ==
  [ pc |-> "idle",              \* idle, enum, resolve, returned, raised
    kind |-> "none",
    dotenvVars |-> EmptyObj,    \* dotenvResult.parsed / dotenvVars
    n |-> 0,                    \* entries enumerated so far, while enumerating
    appConfigVars |-> EmptyObj,
    keyVaultReferences |-> EmptyObj,
    secrets |-> EmptyObj,       \* getSecretsFromKeyVault's secrets object
    queued |-> {},              \* jobs the limiter has not launched yet
    running |-> {},             \* fetches awaiting the vault's answer
    wait |-> 0,                 \* limiter: time until the next launch
    azure |-> EmptyObj,         \* azureVars
    result |-> EmptyObj,        \* the value returned
    error |-> "none",
    errorKey |-> "none",
    \* history
    options |-> NoSafe,         \* config's options
    missing |-> {},             \* the keys MissingEnvVarsError lists
    credential |-> Undefined,   \* credentials.connectionString, given to
                                \* new AppConfigurationClient
    hadCredential |-> FALSE,    \* some source held a connection string
    ambientCS |-> Undefined,    \* the ambient connection string at the call
    applied |-> EmptyObj,       \* the sink's values of the local file's keys
                                \* when dotenv.config returned
    malformed |-> "none",       \* key of a reference entry that cannot be a
                                \* reference
    listed |-> FALSE,           \* listConfigurationSettings was called
    seenSentinel |-> {},        \* keys enumerated with the sentinel content
                                \* type
    seenOther |-> {},           \* keys enumerated with another content type
    decoded |-> {},             \* the entries given to the decoder, as
                                \* <<key, content type is the sentinel>>
    plainTagged |-> {},         \* the entries stored as plain values, as
                                \* <<key, content type is the sentinel>>
    launches |-> EmptyObj,      \* per key, the number of getSecret requests
    seenPlain |-> {},           \* plain entries enumerated
    lastPlain |-> EmptyObj,     \* the last plain entry of each key
    fetched |-> {},             \* keys whose fetch was initiated
    phaseFailed |-> FALSE,      \* getSecretsFromKeyVault rejected
    since |-> 0,                \* time since this call's last initiation
    minGap |-> 0 ]              \* least time between two of its initiations

Init ==
  /\ rateLimit \in RateLimits
  /\ keyVaultRateLimitMinTime = MinTime(rateLimit)
  /\ connectionString \in ConnectionStrings
  /\ keyVaultClients = EmptyObj
  /\ env \in AmbientEnvs
  /\ calls = [c \in CallIds |->
                [IdleCall EXCEPT !.since = Interval, !.minGap = Interval]]
  /\ clients = {}
  /\ uses = {}
  /\ sinceAny = Interval
  /\ minGapAny = Interval

\* ------------------------------------------------------------ return paths
\* loadFromAzure returns { ...appConfigVars, ...keyVaultSecrets }; parse and
\* config overlay the local values; config has written azureVars to the sink
Returned(r, keyVaultSecrets) ==
  LET azureVars == AzureVars(r.appConfigVars, keyVaultSecrets) IN
  [r EXCEPT !.pc = "returned",
            !.n = 0,
            !.azure = azureVars,
            !.result = IF r.kind = "loadFromAzure" THEN azureVars
                       ELSE JoinedVars(azureVars, r.dotenvVars)]

\* mutant: config writes joinedVars to the sink
SinkAfterJoined(r, keyVaultSecrets, processEnv) ==
  IF r.kind = "config"
  THEN populateProcessEnv(processEnv,
         JoinedVars(AzureVars(r.appConfigVars, keyVaultSecrets), r.dotenvVars))
  ELSE processEnv

\* mutant: every entry point writes azureVars to the sink
SinkAfterAnyKind(r, keyVaultSecrets, processEnv) ==
  populateProcessEnv(processEnv, AzureVars(r.appConfigVars, keyVaultSecrets))

\* config's populateProcessEnv(azureVars); parse and loadFromAzure have none
SinkAfter(r, keyVaultSecrets, processEnv) ==
  IF r.kind = "config"
  THEN populateProcessEnv(processEnv, AzureVars(r.appConfigVars, keyVaultSecrets))
  ELSE processEnv

\* the catch block of loadFromAzure: keyVaultSecrets stays {}
CaughtSecrets == EmptyObj

Raised(r, error, key) ==
  [r EXCEPT !.pc = "raised", !.n = 0, !.error = error, !.errorKey = key]

\* compact(process.env): the entries whose value is not empty
compact(obj) == [k \in {x \in DOMAIN obj : ~Falsy(obj[x])} |-> obj[k]]

\* difference(a, b): the elements of a that are not in b
difference(a, b) == a \ b

\* mutant: empty values never count, whatever allowEmptyValues says
validateFromEnvExampleStrict(options, processEnv) ==
  difference(ExampleKeys, DOMAIN compact(processEnv))

\* validateFromEnvExample: the keys of the example file that process.env
\* lacks; MissingEnvVarsError is thrown when there is one
validateFromEnvExample(options, processEnv) ==
  LET checked == IF options.allowEmptyValues THEN processEnv
                 ELSE compact(processEnv)
  IN difference(ExampleKeys, DOMAIN checked)

\* the end of config(options) once loadFromAzure has returned and
\* populateProcessEnv has written processEnv: r is the call before the step,
\* done the call as loadFromAzure's return leaves it
ConfigSafe(r, done, processEnv) ==
  IF /\ r.pc # "returned" /\ done.pc = "returned"
     /\ done.kind = "config" /\ done.options.safe
  THEN LET missing == validateFromEnvExample(done.options, processEnv) IN
       IF missing # {}
       THEN [Raised(done, "MissingEnvVars", "none") EXCEPT
               !.result = EmptyObj, !.missing = missing]
       ELSE done
  ELSE done

\* ------------------------------------------------------------------ actions
\* the slot's call is over: nothing of it is awaited or scheduled any more
Over(r) ==
  /\ r.pc \in {"idle", "returned", "raised"}
  /\ r.queued = {}
  /\ r.running = {}

\* config(options), parse(src) or loadFromAzure(dotenvVars) up to its first await
Call(c, kind, options, local) ==
  LET r == calls[c]
      sink == IF kind = "config" THEN dotenvConfig(env, local) ELSE env
      credentials == getAzureCredentials(connectionString, local, sink)
      fresh == [IdleCall EXCEPT !.since = Interval, !.minGap = Interval]
      started == [fresh EXCEPT !.kind = kind, !.dotenvVars = local,
                           !.options = options,
                           !.applied = IF kind = "config"
                                       THEN [k \in DOMAIN local |-> sink[k]]
                                       ELSE EmptyObj,
                           !.ambientCS = Get(env, CS),
                           !.hadCredential =
                              \/ ~Falsy(connectionString)
                              \/ ~Falsy(Get(local, CS))
                              \/ ~Falsy(Get(env, CS))]
  IN /\ Over(r)
     /\ IF c = 1 THEN TRUE ELSE ~Over(calls[1])
     /\ env' = sink
     /\ calls' = [calls EXCEPT ![c] =
          IF credentials.ok
          THEN [started EXCEPT !.pc = "enum", !.listed = TRUE,
                               !.credential = credentials.connectionString]
          ELSE Raised(started, "MissingAppConfigCredentials", "none")]
     /\ UNCHANGED << rateLimit, keyVaultRateLimitMinTime, connectionString,
                     keyVaultClients, clients, uses, sinceAny, minGapAny >>

\* mutant: key and value change places
StorePlainSwapped(appConfigVars, config) ==
  Put(appConfigVars, config.value, config.key)

\* mutant: a key's first plain value is kept
StorePlainOnce(appConfigVars, config) ==
  IF config.key \in DOMAIN appConfigVars
  THEN appConfigVars
  ELSE Put(appConfigVars, config.key, config.value)

\* appConfigVars[config.key] = config.value
StorePlain(appConfigVars, config) == Put(appConfigVars, config.key, config.value)

\* one iteration of the for-await loop of getAppConfigurations
NextEntry(c, config) ==
  LET r == calls[c]
      counted == [r EXCEPT
                    !.n = @ + 1,
                    !.seenSentinel = IF config.contentType = Sentinel
                                     THEN @ \cup {config.key} ELSE @,
                    !.seenOther = IF config.contentType = Sentinel
                                  THEN @ ELSE @ \cup {config.key},
                    !.malformed = IF /\ config.contentType = Sentinel
                                     /\ config.value \in BadValues
                                  THEN config.key ELSE @]
      info == getKeyVaultReferenceInfo(config.key, config.value)
      given == [counted EXCEPT !.decoded =
                                   @ \cup {<<config.key, config.contentType = Sentinel>>}]
  IN /\ r.pc = "enum"
     /\ r.n < MaxEntries
     /\ calls' = [calls EXCEPT ![c] =
          IF isKeyVaultReference(config)
          THEN IF info.ok
               THEN [given EXCEPT !.keyVaultReferences = Put(@, config.key, info)]
               ELSE Raised(given, info.error, info.key)
          ELSE [counted EXCEPT
                  !.appConfigVars = StorePlain(@, config),
                  !.plainTagged =
                     @ \cup {<<config.key, config.contentType = Sentinel>>},
                  !.seenPlain = @ \cup {<<config.key, config.value>>},
                  !.lastPlain = Put(@, config.key, config.value)]]
     /\ UNCHANGED << rateLimit, keyVaultRateLimitMinTime, connectionString,
                     keyVaultClients, env, clients, uses, sinceAny, minGapAny >>

\* listConfigurationSettings() rejects: the error leaves loadFromAzure
ListFails(c) ==
  /\ calls[c].pc = "enum"
  /\ calls' = [calls EXCEPT ![c] = Raised(@, "StoreError", "none")]
  /\ UNCHANGED << rateLimit, keyVaultRateLimitMinTime, connectionString,
                  keyVaultClients, env, clients, uses, sinceAny, minGapAny >>

\* the enumeration ends; getSecretsFromKeyVault makes its limiter and
\* schedules one job per reference. Promise.all([]) resolves at once.
EndOfEntries(c) ==
  LET r == calls[c]
      keys == DOMAIN r.keyVaultReferences
  IN /\ r.pc = "enum"
     /\ IF keys = {}
        THEN /\ calls' = [calls EXCEPT ![c] =
                    ConfigSafe(r, Returned(r, r.secrets),
                               SinkAfter(r, r.secrets, env))]
             /\ env' = SinkAfter(r, r.secrets, env)
        ELSE /\ calls' = [calls EXCEPT ![c] =
                  [r EXCEPT !.pc = "resolve", !.n = 0, !.queued = keys,
                            !.wait = 0]]
             /\ env' = env
     /\ UNCHANGED << rateLimit, keyVaultRateLimitMinTime, connectionString,
                     keyVaultClients, clients, uses, sinceAny, minGapAny >>

\* mutant: every job is given the entry of the last key
ScheduledJobLast(keyVaultReferences, key) ==
  IF "B" \in DOMAIN keyVaultReferences
  THEN keyVaultReferences["B"] ELSE keyVaultReferences[key]

\* Object.entries(vars).map(([key, val]) => schedule(() => getSecret(key, val))):
\* the reference info the job of `key` is given
ScheduledJob(keyVaultReferences, key) == keyVaultReferences[key]

\* mutant: settled as soon as no fetch is in flight
AllSettledNoneRunning(r) == r.running = {}

\* Promise.all(secretsPromises) resolves: every job was launched and answered
AllSettled(r) == r.queued = {} /\ r.running = {}

\* mutant: the registry is never consulted
HasClientNever(registry, vaultURL) == FALSE

\* the test of getKeyVaultClient: is a client registered for the vault URL
HasClient(registry, vaultURL) == vaultURL \in DOMAIN registry

\* mutant: a job's rejection is swallowed, nothing settles the awaited promise
AfterRejectionSwallowed(r) == r

\* mutant: the secrets fetched before the rejection are kept
AfterRejectionKeepsSecrets(r) ==
  IF r.pc = "resolve"
  THEN [Returned(r, r.secrets) EXCEPT !.phaseFailed = TRUE]
  ELSE r

\* the rejection of one job rejects Promise.all: while the call still awaits
\* it, loadFromAzure catches the error and returns without the secrets
AfterRejection(r) ==
  IF r.pc = "resolve"
  THEN [Returned(r, CaughtSecrets) EXCEPT !.phaseFailed = TRUE]
  ELSE r

SinkAfterRejection(r, processEnv) ==
  IF r.pc = "resolve" THEN SinkAfter(r, CaughtSecrets, processEnv) ELSE processEnv

\* the limiter launches the job of key k: getSecret runs up to its await,
\* getKeyVaultClient included, and the fetch is on its way
StartFetch(c, k) ==
  LET r == calls[c]
      vaultURL == ScheduledJob(r.keyVaultReferences, k).vaultUrl
      has == HasClient(keyVaultClients, vaultURL)
      created == Cardinality(clients) + 1
      client == IF has THEN keyVaultClients[vaultURL] ELSE created
  IN /\ r.pc \in {"resolve", "returned"}
     /\ k \in r.queued
     /\ r.wait = 0
     /\ keyVaultClients' =
          IF has THEN keyVaultClients ELSE Put(keyVaultClients, vaultURL, created)
     /\ clients' = IF has THEN clients ELSE clients \cup {<<vaultURL, created>>}
     /\ uses' = uses \cup {<<vaultURL, client>>}
     /\ calls' = [calls EXCEPT ![c] =
          [r EXCEPT !.queued = @ \ {k},
                    !.running = @ \cup {k},
                    !.wait = keyVaultRateLimitMinTime,
                    !.fetched = @ \cup {k},
                    !.launches = Put(@, k, IF k \in DOMAIN @ THEN @[k] + 1
                                           ELSE 1),
                    !.minGap = Min(@, r.since),
                    !.since = 0]]
     /\ sinceAny' = 0
     /\ minGapAny' = Min(minGapAny, sinceAny)
     /\ UNCHANGED << rateLimit, keyVaultRateLimitMinTime, connectionString, env >>

\* the limiter launches the job of key k and `new SecretClient` throws:
\* nothing is registered, no fetch is made, the job rejects
ClientFails(c, k) ==
  LET r == calls[c]
      vaultURL == ScheduledJob(r.keyVaultReferences, k).vaultUrl
      launched == [r EXCEPT !.queued = @ \ {k},
                            !.wait = keyVaultRateLimitMinTime]
  IN /\ r.pc \in {"resolve", "returned"}
     /\ k \in r.queued
     /\ r.wait = 0
     /\ ~HasClient(keyVaultClients, vaultURL)
     /\ calls' = [calls EXCEPT ![c] =
          ConfigSafe(launched, AfterRejection(launched),
                     SinkAfterRejection(launched, env))]
     /\ env' = SinkAfterRejection(launched, env)
     /\ UNCHANGED << rateLimit, keyVaultRateLimitMinTime, connectionString,
                     keyVaultClients, clients, uses, sinceAny, minGapAny >>

\* the vault answers the fetch of key k: secrets[key] = response.value; when
\* it was the last job, Promise.all resolves and the call returns
FetchSucceeds(c, k) ==
  LET r == calls[c]
      info == ScheduledJob(r.keyVaultReferences, k)
      got == [r EXCEPT !.running = @ \ {k},
                       !.secrets = Put(@, k, VaultSecret(info.vaultUrl,
                                        info.secretName, info.secretVersion))]
      all == got.pc = "resolve" /\ AllSettled(got)
  IN /\ k \in r.running
     /\ calls' = [calls EXCEPT ![c] =
                    IF all
                    THEN ConfigSafe(got, Returned(got, got.secrets),
                                    SinkAfter(got, got.secrets, env))
                    ELSE got]
     /\ env' = IF all THEN SinkAfter(got, got.secrets, env) ELSE env
     /\ UNCHANGED << rateLimit, keyVaultRateLimitMinTime, connectionString,
                     keyVaultClients, clients, uses, sinceAny, minGapAny >>

\* the fetch of key k fails: the job rejects
FetchFails(c, k) ==
  LET r == calls[c]
      failed == [r EXCEPT !.running = @ \ {k}]
  IN /\ k \in r.running
     /\ calls' = [calls EXCEPT ![c] =
          ConfigSafe(failed, AfterRejection(failed),
                     SinkAfterRejection(failed, env))]
     /\ env' = SinkAfterRejection(failed, env)
     /\ UNCHANGED << rateLimit, keyVaultRateLimitMinTime, connectionString,
                     keyVaultClients, clients, uses, sinceAny, minGapAny >>

\* one unit of time passes for every limiter
Tick ==
  /\ \/ sinceAny < Interval
     \/ \E c \in CallIds : calls[c].wait > 0 \/ calls[c].since < Interval
  /\ calls' = [c \in CallIds |->
                 [calls[c] EXCEPT !.wait = Max(0, @ - 1),
                                  !.since = Min(Interval, @ + 1)]]
  /\ sinceAny' = Min(Interval, sinceAny + 1)
  /\ UNCHANGED << rateLimit, keyVaultRateLimitMinTime, connectionString,
                  keyVaultClients, env, clients, uses, minGapAny >>

Steps ==
  \/ \E c \in CallIds : ListFails(c)
  \/ \E c \in CallIds : EndOfEntries(c)
  \/ \E c \in CallIds, k \in Keys : StartFetch(c, k)
  \/ \E c \in CallIds, k \in Keys : ClientFails(c, k)
  \/ \E c \in CallIds, k \in Keys : FetchSucceeds(c, k)
  \/ \E c \in CallIds, k \in Keys : FetchFails(c, k)
  \/ Tick

\* one call, any input
Next ==
  \/ \E kind \in Kinds, local \in LocalVars :
        calls[1].pc = "idle" /\ Call(1, kind, NoSafe, local)
  \/ \E config \in Entries : NextEntry(1, config)
  \/ Steps

Spec == Init /\ [][Next]_vars

\* calls one after the other or overlapping
NextCalls ==
  \/ \E c \in CallIds, kind \in {"loadFromAzure"}, local \in CredentialVars :
        Call(c, kind, NoSafe, local)
  \/ \E c \in CallIds, config \in ReferenceEntries : NextEntry(c, config)
  \/ Steps

InitCalls ==
  Init /\ env = EmptyObj /\ connectionString = Undefined /\ rateLimit = 600

SpecCalls == InitCalls /\ [][NextCalls]_vars

\* one call under the scheduling of the event loop: the store's enumeration
\* ends or fails, the limiter launches a job whose time has come, the vault
\* answers a fetch in flight, and time passes
Fairness ==
  /\ WF_vars(EndOfEntries(1) \/ ListFails(1))
  /\ WF_vars(\E k \in Keys : StartFetch(1, k) \/ ClientFails(1, k))
  /\ WF_vars(\E k \in Keys : FetchSucceeds(1, k) \/ FetchFails(1, k))
  /\ WF_vars(Tick)

NextLive ==
  \/ \E kind \in Kinds, local \in CredentialVars :
        calls[1].pc = "idle" /\ Call(1, kind, NoSafe, local)
  \/ \E config \in LiveEntries : NextEntry(1, config)
  \/ Steps

InitLive == Init /\ env = EmptyObj /\ connectionString = Undefined

SpecLive == InitLive /\ [][NextLive]_vars /\ Fairness

\* one config call in safe mode
NextSafe ==
  \/ \E options \in SafeOptions, local \in LocalVars :
        calls[1].pc = "idle" /\ Call(1, "config", options, local)
  \/ \E config \in Entries : NextEntry(1, config)
  \/ Steps

SpecSafe == Init /\ [][NextSafe]_vars

\* =================================================================== claims
SecretValues == {"secret-v1-s", "secret-v1-t", "secret-v2-s"}

\* C1: local precedence. The mapping parse() returns and the `parsed` view
\* of config() hold, for every key of the local mapping, the local value.
C1_LocalPrecedence ==
  \A c \in CallIds :
    LET r == calls[c] IN
    (r.pc = "returned" /\ r.kind \in {"parse", "config"}) =>
      \A k \in DOMAIN r.dotenvVars :
        k \in DOMAIN r.result /\ r.result[k] = r.dotenvVars[k]

\* a call returned whose local key is also defined remotely, with another value
C1_Witness ==
  \E c \in CallIds :
    LET r == calls[c] IN
    /\ r.pc = "returned" /\ r.kind \in {"parse", "config"}
    /\ \E k \in DOMAIN r.dotenvVars \cap DOMAIN r.azure :
         r.azure[k] # r.dotenvVars[k]

\* C2 as stated: when a key has both a plain remote value and a resolved
\* secret, loadFromAzure's mapping keeps the plain value.
C2_PlainOverSecret ==
  \A c \in CallIds :
    LET r == calls[c] IN
    (r.pc = "returned" /\ ~r.phaseFailed) =>
      \A k \in DOMAIN r.appConfigVars \cap DOMAIN r.secrets :
        r.azure[k] = r.appConfigVars[k]

\* C2 amended: when a key has both a plain remote value and a resolved
\* secret, loadFromAzure's mapping keeps the resolved secret; the plain value
\* is kept only when the resolution phase failed.
C2_SecretOverPlain ==
  \A c \in CallIds :
    LET r == calls[c] IN
    r.pc = "returned" =>
      \A k \in DOMAIN r.appConfigVars \cap DOMAIN r.keyVaultReferences :
        /\ ~r.phaseFailed => (k \in DOMAIN r.secrets /\ r.azure[k] = r.secrets[k])
        /\ r.phaseFailed => r.azure[k] = r.appConfigVars[k]

\* a key enumerated as plain entry and as reference, both phases' outcomes in
\* reach: here the resolution succeeded
C2_Witness ==
  \E c \in CallIds :
    LET r == calls[c] IN
    /\ r.pc = "returned" /\ ~r.phaseFailed
    /\ \E k \in DOMAIN r.appConfigVars \cap DOMAIN r.secrets :
         r.appConfigVars[k] # r.secrets[k]

\* C3 as stated: counted over every call made on the instance, no two fetch
\* initiations are closer together than T = ceil(1000 / rateLimit).
C3_RateFloorPerInstance == minGapAny >= CeilDiv(1000, rateLimit)

\* C3 amended: within one loadFromAzure/parse/config call (one limiter), no
\* two fetch initiations are closer together than T = ceil(1000 / rateLimit).
C3_RateFloorPerCall ==
  \A c \in CallIds : calls[c].minGap >= CeilDiv(1000, rateLimit)

\* a call has initiated the fetches of two references, of different vaults
C3_Witness ==
  \E c \in CallIds :
    LET r == calls[c] IN
    /\ r.fetched = {"A", "B"}
    /\ r.keyVaultReferences["A"].vaultUrl # r.keyVaultReferences["B"].vaultUrl

C5_MissingCredentialsGate ==
  \A c \in CallIds :
    LET r == calls[c] IN
    (r.pc # "idle" /\ ~r.hadCredential) =>
      /\ r.pc = "raised"
      /\ r.error = "MissingAppConfigCredentials"
      /\ ~r.listed
      /\ r.fetched = {} /\ r.queued = {} /\ r.running = {}

\* config() was called with local values and no connection string anywhere
C5_Witness ==
  \E c \in CallIds :
    LET r == calls[c] IN
    /\ r.kind = "config" /\ ~r.hadCredential
    /\ r.dotenvVars # EmptyObj
    /\ r.error = "MissingAppConfigCredentials"

\* C6: after config() the sink holds, for every key of the local file, the
\* value it held when the local-file loader had applied the file.
C6_SinkLocalPrecedence ==
  \A c \in CallIds :
    LET r == calls[c] IN
    (r.pc = "returned" /\ r.kind = "config") =>
      \A k \in DOMAIN r.dotenvVars : Get(env, k) = r.applied[k]

\* C7: a reference entry that cannot be decoded makes loadFromAzure raise
\* InvalidKeyVaultUrlError with that entry's key; no fetch is scheduled or
\* initiated, nothing is returned, and the error is not caught like a vault
\* failure.
C7_MalformedReferenceAborts ==
  \A c \in CallIds :
    LET r == calls[c] IN
    /\ r.malformed # "none" =>
         /\ r.pc = "raised"
         /\ r.error = "InvalidKeyVaultUrl" /\ r.errorKey = r.malformed
    /\ r.error = "InvalidKeyVaultUrl" =>
         /\ r.pc = "raised" /\ ~r.phaseFailed
         /\ r.fetched = {} /\ r.queued = {} /\ r.running = {}
         /\ r.result = EmptyObj /\ r.azure = EmptyObj

\* a malformed reference came after a well-formed one and a plain entry
C7_Witness ==
  \E c \in CallIds :
    LET r == calls[c] IN
    /\ r.error = "InvalidKeyVaultUrl" /\ r.errorKey = "B"
    /\ "A" \in DOMAIN r.keyVaultReferences

\* C8: no step of a parse() or loadFromAzure() call changes the sink, and
\* what loadFromAzure returns has no key that only the local values hold.
C8_ParseAndLoadLeaveSink ==
  [][ /\ calls'[1].kind \in {"parse", "loadFromAzure"} => env' = env
      /\ (calls'[1].kind = "loadFromAzure" /\ calls'[1].pc = "returned") =>
           DOMAIN calls'[1].result \subseteq
             DOMAIN calls'[1].lastPlain \cup DOMAIN calls'[1].keyVaultReferences
    ]_vars

\* parse() returned remote values of keys the sink does not hold
C8_Witness ==
  /\ calls[1].kind = "parse" /\ calls[1].pc = "returned"
  /\ calls[1].dotenvVars # EmptyObj
  /\ \E k \in DOMAIN calls[1].azure : k \notin DOMAIN env

\* C9 as stated: every plain entry enumerated whose key has no local override
\* has its value in the final merged mapping.
C9_EveryPlainEntryKept ==
  \A c \in CallIds :
    LET r == calls[c] IN
    (r.pc = "returned" /\ r.kind \in {"parse", "config"}) =>
      \A e \in r.seenPlain :
        e[1] \notin DOMAIN r.dotenvVars =>
          (e[1] \in DOMAIN r.result /\ r.result[e[1]] = e[2])

\* C9 amended: for every key enumerated as a plain entry that has no local
\* override and no resolved secret, the final merged mapping holds the value
\* of the last plain entry enumerated for that key.
C9_LastPlainEntryKept ==
  \A c \in CallIds :
    LET r == calls[c] IN
    (r.pc = "returned" /\ r.kind \in {"parse", "config"}) =>
      \A k \in DOMAIN r.lastPlain :
        ( /\ k \notin DOMAIN r.dotenvVars
          /\ (k \notin DOMAIN r.keyVaultReferences \/ r.phaseFailed) ) =>
          (k \in DOMAIN r.result /\ r.result[k] = r.lastPlain[k])

\* a key was enumerated twice as a plain entry, with two values
C9_Witness ==
  \E c \in CallIds :
    LET r == calls[c] IN
    /\ r.pc = "returned" /\ r.kind \in {"parse", "config"}
    /\ \E e, f \in r.seenPlain :
         e[1] = f[1] /\ e[2] # f[2] /\ e[1] \notin DOMAIN r.dotenvVars

\* C10: client reuse. One SecretClient at most is constructed per vault URL,
\* the registry holds it, and every fetch initiated against that URL used it.
C10_ClientReuse ==
  /\ \A x, y \in clients : x[1] = y[1] => x = y
  /\ \A u \in uses : u \in clients
  /\ \A x \in clients :
       x[1] \in DOMAIN keyVaultClients /\ keyVaultClients[x[1]] = x[2]
  /\ \A c \in CallIds : \A k \in calls[c].fetched :
       \E x \in clients : x[1] = calls[c].keyVaultReferences[k].vaultUrl

\* two calls at once have a fetch under way against the same vault
C10_Witness ==
  /\ calls[1].running # {} /\ calls[2].running # {}
  /\ \E j \in calls[1].running, k \in calls[2].running :
       calls[1].keyVaultReferences[j].vaultUrl = calls[2].keyVaultReferences[k].vaultUrl

\* C11: credential precedence. The connection string the store client is
\* built with is the constructor's when it has one; otherwise the ambient
\* environment's when the ambient environment defines it; otherwise the
\* local value.
C11_CredentialPrecedence ==
  \A c \in CallIds :
    LET r == calls[c] IN
    r.listed =>
      r.credential =
        IF ~Falsy(connectionString) THEN connectionString
        ELSE IF r.ambientCS # Undefined THEN r.ambientCS
        ELSE Get(r.dotenvVars, CS)

\* the ambient environment and the local values both hold a connection
\* string, the constructor none
C11_Witness ==
  \E c \in CallIds :
    LET r == calls[c] IN
    /\ r.listed /\ Falsy(connectionString)
    /\ r.ambientCS = "cs-env" /\ Get(r.dotenvVars, CS) = "cs-local"

\* C12: safe-mode validation. A config call in safe mode whose loading has
\* completed raises MissingEnvVarsError exactly when a key of the example
\* file is absent from the final environment, an empty value counting as
\* absent unless allowEmptyValues; the error lists exactly those keys; and
\* the environment it checks already holds every remote-derived value.
C12_SafeModeValidation ==
  \A c \in CallIds :
    LET r == calls[c]
        absent == {k \in ExampleKeys :
                     \/ k \notin DOMAIN env
                     \/ ~r.options.allowEmptyValues /\ env[k] = ""}
    IN (/\ r.kind = "config" /\ r.options.safe
        /\ (r.pc = "returned" \/ r.error = "MissingEnvVars")) =>
         /\ (r.pc = "raised") = (absent # {})
         /\ r.pc = "raised" => r.error = "MissingEnvVars"
         /\ r.missing = absent
         /\ \A k \in DOMAIN r.azure : k \in DOMAIN env /\ env[k] = r.azure[k]

\* a safe call raised for a missing key while a remote value satisfied
\* another key of the example file
C12_Witness ==
  \E c \in CallIds :
    LET r == calls[c] IN
    /\ r.error = "MissingEnvVars" /\ r.missing = {"A"}
    /\ "B" \in DOMAIN r.azure /\ "B" \notin DOMAIN r.dotenvVars


\* C13 as stated: for every enumerated sequence the plain mapping and the
\* references mapping have disjoint key sets, whose union is the set of
\* enumerated keys.
C13_FetcherPartition ==
  \A c \in CallIds :
    LET r == calls[c] IN
    r.pc \in {"resolve", "returned"} =>
      /\ DOMAIN r.appConfigVars \cap DOMAIN r.keyVaultReferences = {}
      /\ DOMAIN r.appConfigVars \cup DOMAIN r.keyVaultReferences =
           r.seenSentinel \cup r.seenOther

\* C13: the union of the two mappings' key sets is the set of enumerated
\* keys, and the keys the two mappings share are the keys enumerated both
\* with the sentinel content type and with another one: the key sets are
\* disjoint when no key is enumerated under both.
C13_FetcherCover ==
  \A c \in CallIds :
    LET r == calls[c] IN
    r.pc \in {"resolve", "returned"} =>
      /\ DOMAIN r.appConfigVars \cup DOMAIN r.keyVaultReferences =
           r.seenSentinel \cup r.seenOther
      /\ DOMAIN r.appConfigVars \cap DOMAIN r.keyVaultReferences =
           r.seenSentinel \cap r.seenOther

\* the fetcher returned after one key came both as a reference and as a
\* plain entry
C13_Witness ==
  \E c \in CallIds :
    LET r == calls[c] IN
    /\ r.pc = "resolve"
    /\ r.seenSentinel \cap r.seenOther # {}

\* C14: no partial merge. While the resolution phase is in progress nothing
\* is merged; a call that returned after every fetch succeeded holds a secret
\* for every reference key; a call that returned after the phase failed holds
\* no secret at all, also when some fetch had succeeded before the failure.
C14_NoPartialMerge ==
  \A c \in CallIds :
    LET r == calls[c]
        refs == DOMAIN r.keyVaultReferences
    IN /\ r.pc = "resolve" => r.azure = EmptyObj /\ r.result = EmptyObj
       /\ (r.pc = "returned" /\ ~r.phaseFailed) =>
            \A k \in refs : k \in DOMAIN r.azure /\ r.azure[k] \in SecretValues
       /\ (r.pc = "returned" /\ r.phaseFailed) =>
            /\ DOMAIN r.azure = DOMAIN r.appConfigVars
            /\ \A k \in DOMAIN r.azure : r.azure[k] \notin SecretValues

\* the phase failed after a fetch had succeeded
C14_Witness ==
  \E c \in CallIds :
    LET r == calls[c] IN
    /\ r.pc = "returned" /\ r.phaseFailed
    /\ r.secrets # EmptyObj /\ r.kind = "loadFromAzure"

\* C15: resolver result shape. When every fetch succeeded, the mapping
\* getSecretsFromKeyVault returns has the references' key set, each key holds
\* the secret of its own reference (vault, name and version), and each
\* reference was fetched exactly once.
C15_ResolverResultShape ==
  \A c \in CallIds :
    LET r == calls[c]
        refs == r.keyVaultReferences
    IN (r.pc = "returned" /\ ~r.phaseFailed) =>
         /\ DOMAIN r.secrets = DOMAIN refs
         /\ DOMAIN r.launches = DOMAIN refs
         /\ \A k \in DOMAIN refs :
              /\ r.secrets[k] = VaultSecret(refs[k].vaultUrl, refs[k].secretName,
                                            refs[k].secretVersion)
              /\ r.launches[k] = 1

\* a call returned the secrets of two references to different vaults
C15_Witness ==
  \E c \in CallIds :
    LET r == calls[c] IN
    /\ r.pc = "returned" /\ ~r.phaseFailed
    /\ DOMAIN r.keyVaultReferences = {"A", "B"}
    /\ r.secrets["A"] # r.secrets["B"]

C17_ExactSentinel ==
  \A c \in CallIds :
    LET r == calls[c] IN
    /\ \A e \in r.decoded : e[2]
    /\ \A e \in r.plainTagged : ~e[2]
    /\ {e[1] : e \in r.plainTagged} = r.seenOther
    /\ DOMAIN r.appConfigVars = r.seenOther
    /\ DOMAIN r.keyVaultReferences \subseteq r.seenSentinel
    /\ r.fetched \subseteq r.seenSentinel
    /\ r.error = "InvalidKeyVaultUrl" => r.errorKey \in r.seenSentinel

\* an entry with another content type whose value reads as a reference was
\* stored as a plain value, next to a reference, and the call returned
C17_Witness ==
  \E c \in CallIds :
    LET r == calls[c] IN
    /\ r.pc = "returned"
    /\ <<"A", FALSE>> \in r.plainTagged
    /\ <<"A", RefV1>> \in r.seenPlain
    /\ r.seenSentinel = {"B"}

\* C18: no fetch outlives its call. Once a call has returned, also after a
\* failed phase, none of its jobs is still waiting to be launched and none of
\* its fetches is still awaiting the vault's answer, so that no fetch is
\* initiated and no client is registered after the return.
C18_NoFetchOutlivesCall ==
  \A c \in CallIds :
    LET r == calls[c] IN
    r.pc \in {"returned", "raised"} => r.queued = {} /\ r.running = {}

\* C19: termination. Under fair scheduling, with a finite enumeration and
\* every initiated fetch answered, a call that is enumerating or resolving
\* eventually returns or raises.
C19_Termination ==
  (calls[1].pc \in {"enum", "resolve"}) ~> (calls[1].pc \in {"returned", "raised"})

\* a call returned after the limiter spaced the fetches of two references,
\* every job of it launched and answered
C19_Witness ==
  /\ calls[1].pc = "returned" /\ ~calls[1].phaseFailed
  /\ calls[1].kind = "loadFromAzure"
  /\ Cardinality(calls[1].fetched) = 2
  /\ calls[1].minGap = Interval
====
